---------------------------- MODULE Spec2Model ----------------------------
(***************************************************************************)
(* Model of src/symrax_agent.py: the telephony voice agent of a clinic.    *)
(*                                                                         *)
(*   - HarmonyTools._clean_phone_number  (the identifier normaliser)       *)
(*   - the is_unknown expression of entrypoint (the caller classifier)     *)
(*   - HarmonyTools.get_slot             (the availability gateway)        *)
(*   - entrypoint                        (one task per inbound call)       *)
(*                                                                         *)
(* A Python string is a sequence of characters; a character is a one-      *)
(* letter TLA+ string, except for the few characters that have no ASCII    *)
(* spelling, which are named ("\t", "U+0663").                             *)
(*                                                                         *)
(* Five specifications share the variables:                                *)
(*   SpecFn  applies the two pure functions to a bounded set of raw        *)
(*           identifiers;                                                  *)
(*   Spec    runs NumCalls concurrent calls, each through entrypoint and   *)
(*           the get_slot invocations of its conversational layer;         *)
(*   LiveSpec follows one call, of any identity, under the fairness the    *)
(*           event loop provides;                                          *)
(*   SpecRepeat follows one call and records the last two get_slot         *)
(*           invocations that ended;                                       *)
(*   SpecCal applies nextBusinessDay, which the source file does not       *)
(*           hold and which is modelled from its written algorithm, to     *)
(*           every current date of a bounded range.                        *)
(***************************************************************************)
EXTENDS Integers, Sequences, FiniteSets, TLC

VARIABLES
    \* ---- harness of the pure functions (SpecFn) ----
    fnPhase,        \* "off" | "input" | "classified" | "cleaned"
    raw,            \* the raw caller identifier under test
    is_unknown,     \* the classifier's answer for raw
    cleaned,        \* _clean_phone_number(raw)
    \* ---- harness of the calendar function (SpecCal) ----
    today,          \* the current date in the clinic timezone, as a day number
    business_day,   \* nextBusinessDay() on that date, or NoDay
    \* ---- one entry per call (Spec) ----
    pc,             \* position of the call's entrypoint task
    caller_id,      \* participant.identity, once the participant joined
    unknown,        \* the value of is_unknown computed by entrypoint
    harmony_tools,  \* the call's HarmonyTools object, or NoTools
    agent,          \* the Agent built for the call, or NoAgent
    session,        \* the AgentSession: "none" | "started" | "replied"
    room,           \* "idle" | "connected" | "disconnected"
    slot,           \* the call's get_slot coroutine (see GetSlotInvoke)
    \* ---- observation of get_slot (SpecRepeat) ----
    history         \* the last two invocations that ended, when recorded

fnVars   == <<fnPhase, raw, is_unknown, cleaned, today, business_day>>
callVars == <<pc, caller_id, unknown, harmony_tools, agent, session, room, slot,
              history>>
vars     == <<fnPhase, raw, is_unknown, cleaned, today, business_day,
              pc, caller_id, unknown, harmony_tools, agent, session, room, slot,
              history>>

-----------------------------------------------------------------------------
(* Bounds of the model *)

\* the number of calls handled concurrently
NumCalls == 2
\* SpecFn tries every string over Alphabet up to this length
MaxLen == 2
\* SpecCal tries every current date from day 0 to this day
MaxDay == 55

-----------------------------------------------------------------------------
(* Characters and strings *)

UpperChars == <<"A","B","C","D","E","F","G","H","I","J","K","L","M",
                "N","O","P","Q","R","S","T","U","V","W","X","Y","Z">>
LowerChars == <<"a","b","c","d","e","f","g","h","i","j","k","l","m",
                "n","o","p","q","r","s","t","u","v","w","x","y","z">>

\* the characters str.strip() removes (those that occur in the model)
Whitespace == {" ", "\t"}

AsciiDigits == {"0","1","2","3","4","5","6","7","8","9"}

\* str.isdigit() is Unicode-aware: it also accepts digits outside 0-9, such as
\* ARABIC-INDIC DIGIT THREE
IsDigit(c) == c \in AsciiDigits \cup {"U+0663"}

\* str.lower() on one character
LowerChar(c) ==
    IF \E i \in 1..26 : UpperChars[i] = c
    THEN LowerChars[CHOOSE i \in 1..26 : UpperChars[i] = c]
    ELSE c

\* str.lower()
Lower(s) == [i \in 1..Len(s) |-> LowerChar(s[i])]

\* str.startswith(p)
StartsWith(s, p) == Len(s) >= Len(p) /\ SubSeq(s, 1, Len(p)) = p

\* the Python expression  t in s  on strings
Contains(s, t) ==
    \E k \in 0..(Len(s) - Len(t)) : SubSeq(s, k + 1, k + Len(t)) = t

\* str.strip(): leading and trailing whitespace removed
Strip(s) ==
    LET keep == {i \in 1..Len(s) : s[i] \notin Whitespace}
    IN  IF keep = {} THEN <<>>
        ELSE SubSeq(s, CHOOSE i \in keep : \A j \in keep : i <= j,
                       CHOOSE i \in keep : \A j \in keep : i >= j)

-----------------------------------------------------------------------------
(* String literals of the source *)

S_sip         == <<"s","i","p","_">>
S_mock_user   == <<"m","o","c","k","_","u","s","e","r">>
S_test_number == <<"4","1","6","8","3","9","8","0","9","0">>
S_unknown     == <<"u","n","k","n","o","w","n">>
S_anonymous   == <<"a","n","o","n","y","m","o","u","s">>
S_private     == <<"p","r","i","v","a","t","e">>
S_restricted  == <<"r","e","s","t","r","i","c","t","e","d">>
S_unavailable == <<"u","n","a","v","a","i","l","a","b","l","e">>
S_blocked     == <<"b","l","o","c","k","e","d">>

\* the list unknown_patterns of entrypoint
unknown_patterns ==
    { <<>>, S_unknown, S_anonymous, S_private, S_restricted, S_unavailable,
      S_blocked,
      S_sip \o S_unavailable, S_sip \o S_unknown, S_sip \o S_anonymous,
      S_sip \o S_private, S_sip \o S_restricted, S_sip \o S_blocked }

-----------------------------------------------------------------------------
(* The pure functions *)

\* a classifier that forgot the substring test for "blocked"
IsUnknownNoBlocked(id) ==
    LET caller_id_lower == IF id # <<>> THEN Lower(id) ELSE <<>>
    IN  \/ id = <<>>
        \/ (IF id # <<>> THEN Strip(id) = <<>> ELSE TRUE)
        \/ caller_id_lower \in unknown_patterns
        \/ Contains(caller_id_lower, S_unavailable)
        \/ Contains(caller_id_lower, S_unknown)
        \/ Contains(caller_id_lower, S_anonymous)
        \/ Contains(caller_id_lower, S_private)
        \/ Contains(caller_id_lower, S_restricted)

\* the expression is_unknown of entrypoint
IsUnknown(id) ==
    LET caller_id_lower == IF id # <<>> THEN Lower(id) ELSE <<>>
    IN  \/ id = <<>>
        \/ (IF id # <<>> THEN Strip(id) = <<>> ELSE TRUE)
        \/ caller_id_lower \in unknown_patterns
        \/ Contains(caller_id_lower, S_unavailable)
        \/ Contains(caller_id_lower, S_unknown)
        \/ Contains(caller_id_lower, S_anonymous)
        \/ Contains(caller_id_lower, S_private)
        \/ Contains(caller_id_lower, S_restricted)
        \/ Contains(caller_id_lower, S_blocked)

\* a normaliser that keeps the digits only
CleanPhoneNumberDropsPlus(phone_num) ==
    IF phone_num = S_mock_user THEN S_test_number
    ELSE LET p == IF StartsWith(phone_num, S_sip)
                  THEN SubSeq(phone_num, 5, Len(phone_num))
                  ELSE phone_num
         IN  SelectSeq(p, IsDigit)

\* HarmonyTools._clean_phone_number
CleanPhoneNumber(phone_num) ==
    IF phone_num = S_mock_user THEN S_test_number
    ELSE LET p == IF StartsWith(phone_num, S_sip)
                  THEN SubSeq(phone_num, 5, Len(phone_num))
                  ELSE phone_num
             keep(c) == IsDigit(c) \/ c = "+"
         IN  SelectSeq(p, keep)

-----------------------------------------------------------------------------
(* SpecFn: the pure functions applied to a bounded set of raw identifiers *)

\* str.upper() on one character; used to spell the inputs only
UpperChar(c) ==
    IF \E i \in 1..26 : LowerChars[i] = c
    THEN UpperChars[CHOOSE i \in 1..26 : LowerChars[i] = c]
    ELSE c

Upper(s) == [i \in 1..Len(s) |-> UpperChar(s[i])]

Capitalize(s) == IF s = <<>> THEN s ELSE <<UpperChar(s[1])>> \o Tail(s)

Alphabet == {"1", "+", " ", "\t", "a", "-", "U+0663"}

\* every string over Alphabet of length 0..MaxLen
ShortStrings == UNION {[1..n -> Alphabet] : n \in 0..MaxLen}

DenyTokens ==
    {S_unknown, S_anonymous, S_private, S_restricted, S_unavailable, S_blocked}

\* a deny-list token in three letter cases, with provider decorations around it
DecoratedTokens ==
    { pre \o tok \o suf :
        pre \in {<<>>, S_sip, Upper(S_sip), <<"+","1">>},
        tok \in UNION {{t, Upper(t), Capitalize(t)} : t \in DenyTokens},
        suf \in {<<>>, <<"1">>, <<" ">>} }

S_4165551234  == <<"4","1","6","5","5","5","1","2","3","4">>
S_2895701070  == <<"2","8","9","5","7","0","1","0","7","0">>
S_14165551234 == <<"1">> \o S_4165551234
S_12894685551 == <<"1","2","8","9","4","6","8","5","5","5","1">>

\* identifiers as telephony providers report them
PhoneLike ==
    { S_4165551234, S_2895701070, S_test_number, S_14165551234,
      S_sip \o S_12894685551, <<"+">> \o S_14165551234,
      S_sip \o <<"+">> \o S_14165551234,
      <<"(","4","1","6",")"," ","5","5","5","-","1","2","3","4">>,
      <<"4","1","6","+","5","5","5">>,
      S_mock_user, Capitalize(S_mock_user), S_sip \o S_mock_user,
      S_mock_user \o <<"1">>,
      S_sip, S_sip \o S_sip \o <<"1">>, Upper(S_sip) \o <<"1">>,
      <<"s","i","p","_","a","l","i","c","e">> }

Inputs == ShortStrings \cup DecoratedTokens \cup PhoneLike

-----------------------------------------------------------------------------
(* CalendarUtil: dates of the clinic timezone as day numbers, day 0 a Monday *)

NoDay == -1

\* the weekday of a date, Monday = 0 .. Sunday = 6
Weekday(day) == day % 7

IsWeekend(day) == Weekday(day) \in {5, 6}

\* while the candidate's weekday is Saturday or Sunday, advance by one day
RECURSIVE SkipWeekend(_)
SkipWeekend(candidate) ==
    IF IsWeekend(candidate) THEN SkipWeekend(candidate + 1) ELSE candidate

\* a nextBusinessDay whose first candidate is the current date
NextBusinessDayFromToday(now) == SkipWeekend(now)

\* nextBusinessDay: start at now + 1 day, skip the weekend
NextBusinessDay(now) == SkipWeekend(now + 1)

-----------------------------------------------------------------------------
(* Values: Python objects that cross get_slot's boundary *)

\* a Python str
Str(text)  == [type |-> "str", v |-> text]
\* JSON null, read by response.json() as None
JNull      == [type |-> "null", v |-> "null"]
\* a JSON array, read as a list
JList      == [type |-> "list", v |-> "[]"]
\* a JSON object, read as a dict: fields maps its keys to values
JObject(f) == [type |-> "object", fields |-> f]

NoValue    == [type |-> "none", v |-> ""]

\* the fixed strings get_slot returns
MSG_NO_DATA     == Str("No availability data received")
MSG_APOLOGY     == Str("Sorry, I'm having trouble checking availability right now.")
MSG_SLOW        == Str("The availability system is temporarily slow to respond.")
MSG_UNAVAILABLE == Str("The availability system is temporarily unavailable.")

\* response.status == 200
HTTP_OK == 200

\* aiohttp.ClientTimeout(total=10)
ClientTimeoutTotal == 10

WEBHOOK_URL == "https://n8n.srv891045.hstgr.cloud/webhook/harmony"

-----------------------------------------------------------------------------
(* What the remote side can do with one POST *)

\* response bodies: [valid |-> whether response.json() can decode it, json |-> the value]
BodyResult      == [valid |-> TRUE,  json |-> JObject([result |-> Str("10:00 available")])]
BodyResultNull  == [valid |-> TRUE,  json |-> JObject([result |-> JNull])]
BodyNoResult    == [valid |-> TRUE,  json |-> JObject([message |-> Str("ok")])]
BodyList        == [valid |-> TRUE,  json |-> JList]
BodyMalformed   == [valid |-> FALSE, json |-> NoValue]
NoBody          == [valid |-> FALSE, json |-> NoValue]

Bodies == {BodyResult, BodyResultNull, BodyNoResult, BodyList, BodyMalformed}

Statuses == {HTTP_OK, 201, 500}

NonOkResponses == {[status |-> 201, body |-> BodyResult], [status |-> 500, body |-> BodyMalformed]}

\* kind: "response" (a status line arrived), "timeout" (the total timeout expired
\* first), "error" (DNS failure, connection refused, connection reset)
Response(status, body) == [kind |-> "response", status |-> status, body |-> body]
TimedOut               == [kind |-> "timeout",  status |-> 0, body |-> NoBody]
TransportError         == [kind |-> "error",    status |-> 0, body |-> NoBody]
NoOutcome              == [kind |-> "none",     status |-> 0, body |-> NoBody]

\* the answers of the webhook: every body under status 200, and two other statuses
Responses ==
    {Response(HTTP_OK, b) : b \in Bodies}
    \cup {Response(r.status, r.body) : r \in NonOkResponses}

-----------------------------------------------------------------------------
(* HarmonyTools *)

Calls == 1..NumCalls

NoTools == [built |-> FALSE, phoneNum |-> <<>>, webhook_url |-> ""]

\* HarmonyTools.__init__
HarmonyTools(phoneNum) ==
    [built |-> TRUE, phoneNum |-> CleanPhoneNumber(phoneNum), webhook_url |-> WEBHOOK_URL]

\* the keyword arguments the conversational layer may pass to get_slot:
\* bookingDate and bookingTime are optional
ToolCalls ==
    { [appointmentType |-> "Consultation"],
      [appointmentType |-> "Ultrasound", bookingDate |-> "2020-01-01"],
      [appointmentType |-> "Hair cut", bookingDate |-> "1999-13-45", bookingTime |-> "25:00"] }

\* a parameter list that is checked on the way in: a time that is no time of
\* day is replaced by the "false" sentinel
ParametersValidated(kwargs) ==
    [appointmentType |-> kwargs.appointmentType,
     bookingDate |-> IF "bookingDate" \in DOMAIN kwargs THEN kwargs.bookingDate ELSE "false",
     bookingTime |-> IF "bookingTime" \in DOMAIN kwargs /\ kwargs.bookingTime # "25:00"
                     THEN kwargs.bookingTime ELSE "false"]

\* the parameter list of get_slot, defaults filled in
Parameters(kwargs) ==
    [appointmentType |-> kwargs.appointmentType,
     bookingDate |-> IF "bookingDate" \in DOMAIN kwargs THEN kwargs.bookingDate ELSE "false",
     bookingTime |-> IF "bookingTime" \in DOMAIN kwargs THEN kwargs.bookingTime ELSE "false"]

\* a payload that takes the number from a class attribute, which the object
\* built last overwrites
PayloadClassAttribute(self, params) ==
    LET built == {d \in Calls : harmony_tools[d].built}
        last  == CHOOSE d \in built : \A e \in built : d >= e
    IN  [action          |-> "get_slot",
         appointmentType |-> params.appointmentType,
         bookingDate     |-> params.bookingDate,
         bookingTime     |-> params.bookingTime,
         phoneNumber     |-> IF built = {} THEN self.phoneNum
                             ELSE harmony_tools[last].phoneNum]

\* the dict payload of get_slot
Payload(self, params) ==
    [action          |-> "get_slot",
     appointmentType |-> params.appointmentType,
     bookingDate     |-> params.bookingDate,
     bookingTime     |-> params.bookingTime,
     phoneNumber     |-> self.phoneNum]

NoRequest == [url |-> "", json |-> <<>>, timeout_total |-> 0]

\* session.post(self.webhook_url, json=payload) under ClientTimeout(total=10)
PostRequest(self, params) ==
    [url |-> self.webhook_url, json |-> Payload(self, params),
     timeout_total |-> ClientTimeoutTotal]

\* dict.get(key, default)
DictGet(d, key, default) == IF key \in DOMAIN d THEN d[key] ELSE default

\* the result of a block of code: a returned value or a raised exception
Return(value) == [exc |-> "none", value |-> value]
Raise(exc)    == [exc |-> exc, value |-> NoValue]

\* the exception classes that derive from Exception (asyncio.CancelledError,
\* KeyboardInterrupt and SystemExit derive from BaseException only)
ExceptionClasses ==
    {"asyncio.TimeoutError", "aiohttp.ClientConnectorError",
     "aiohttp.ContentTypeError", "AttributeError"}

\* a try body that falls back whenever the field is falsy:
\* data.get("result") or "No availability data received"
TryBodyFalsyFallback(outcome) ==
    CASE outcome.kind = "timeout" -> Raise("asyncio.TimeoutError")
      [] outcome.kind = "error"   -> Raise("aiohttp.ClientConnectorError")
      [] OTHER ->
            IF outcome.status = HTTP_OK
            THEN IF ~outcome.body.valid
                 THEN Raise("aiohttp.ContentTypeError")
                 ELSE IF outcome.body.json.type # "object"
                      THEN Raise("AttributeError")
                      ELSE LET v == DictGet(outcome.body.json.fields, "result", JNull)
                           IN  Return(IF v = JNull THEN MSG_NO_DATA ELSE v)
            ELSE Return(MSG_APOLOGY)

\* a try body that accepts every 2xx status: response.status < 300
TryBodyAny2xx(outcome) ==
    CASE outcome.kind = "timeout" -> Raise("asyncio.TimeoutError")
      [] outcome.kind = "error"   -> Raise("aiohttp.ClientConnectorError")
      [] OTHER ->
            IF outcome.status < 300
            THEN IF ~outcome.body.valid
                 THEN Raise("aiohttp.ContentTypeError")
                 ELSE IF outcome.body.json.type # "object"
                      THEN Raise("AttributeError")
                      ELSE Return(DictGet(outcome.body.json.fields, "result", MSG_NO_DATA))
            ELSE Return(MSG_APOLOGY)

\* the body of the try statement of get_slot
TryBody(outcome) ==
    CASE outcome.kind = "timeout" -> Raise("asyncio.TimeoutError")
      [] outcome.kind = "error"   -> Raise("aiohttp.ClientConnectorError")
      [] OTHER ->
            IF outcome.status = HTTP_OK
            THEN IF ~outcome.body.valid
                 THEN Raise("aiohttp.ContentTypeError")        \* response.json()
                 ELSE IF outcome.body.json.type # "object"
                      THEN Raise("AttributeError")             \* data.get
                      ELSE Return(DictGet(outcome.body.json.fields, "result", MSG_NO_DATA))
            ELSE Return(MSG_APOLOGY)

\* a get_slot without the except asyncio.TimeoutError clause
GetSlotNoTimeoutClause(outcome) ==
    LET r == TryBody(outcome)
    IN  IF r.exc = "none" THEN r
        ELSE IF r.exc \in ExceptionClasses THEN Return(MSG_UNAVAILABLE)
        ELSE r

\* a get_slot whose last clause catches aiohttp.ClientError only
GetSlotClientErrorOnly(outcome) ==
    LET r == TryBody(outcome)
    IN  IF r.exc = "none" THEN r
        ELSE IF r.exc = "asyncio.TimeoutError" THEN Return(MSG_SLOW)
        ELSE IF r.exc \in {"aiohttp.ClientConnectorError", "aiohttp.ContentTypeError"}
             THEN Return(MSG_UNAVAILABLE)
        ELSE r

\* the try statement of get_slot with its except clauses
GetSlot(outcome) ==
    LET r == TryBody(outcome)
    IN  IF r.exc = "none" THEN r
        ELSE IF r.exc = "asyncio.TimeoutError" THEN Return(MSG_SLOW)
        ELSE IF r.exc \in ExceptionClasses THEN Return(MSG_UNAVAILABLE)
        ELSE r

-----------------------------------------------------------------------------
(* entrypoint: one task per call.  The code between two awaits runs without  *)
(* interruption on the event loop, so an action is one such stretch.         *)

S_sip_alice == <<"s","i","p","_","a","l","i","c","e">>

\* the identities the telephony layer reports in Spec
CallerIds == {S_unknown, S_14165551234, S_sip_alice}

REJECTION_SCRIPT ==
    "You are a rejection system. Say exactly: 'We're sorry, but we cannot assist calls from unknown or private numbers. Please call back from a recognized phone number.' Then end the call."

ASSISTANT_SCRIPT == "# Harmony Fertility AI Assistant ..."

NoAgent == [instructions |-> "", tools |-> {}]

\* a rejection Agent that is handed a get_slot tool
RejectionAgentWithTools ==
    [instructions |-> REJECTION_SCRIPT,
     tools |-> {[name |-> "get_slot", self |-> HarmonyTools(S_unknown)]}]

\* Agent(instructions=...) of the rejection branch: no tools argument
RejectionAgent == [instructions |-> REJECTION_SCRIPT, tools |-> {}]

\* Agent(instructions=..., tools=[harmony_tools.get_slot]): the bound method
\* carries its object
AssistantAgent(tools_obj) ==
    [instructions |-> ASSISTANT_SCRIPT,
     tools |-> {[name |-> "get_slot", self |-> tools_obj]}]

\* get_slot of one call: where its last invocation stands.  posts counts the
\* session.post(...) calls that invocation has made
IdleSlot ==
    [st |-> "idle", kwargs |-> <<>>, request |-> NoRequest, posts |-> 0,
     outcome |-> NoOutcome, exc |-> "none", result |-> NoValue]

\* one invocation of get_slot that ended: what it posted, how the POST ended
\* and what get_slot did then
NoEntry == [request |-> NoRequest, outcome |-> NoOutcome, ret |-> Return(NoValue)]

\* no invocation is recorded (Spec, LiveSpec, SpecFn) / recording, none ended yet
HistoryOff == [on |-> FALSE, prev |-> NoEntry, last |-> NoEntry]
HistoryOn  == [on |-> TRUE,  prev |-> NoEntry, last |-> NoEntry]

\* history after an invocation that posted request ended with ret
Recorded(request, outcome, ret) ==
    IF history.on
    THEN [on |-> TRUE, prev |-> history.last,
          last |-> [request |-> request, outcome |-> outcome, ret |-> ret]]
    ELSE history

Init ==
    /\ fnPhase = "off"
    /\ raw = <<>>
    /\ is_unknown = FALSE
    /\ cleaned = <<>>
    /\ today = 0
    /\ business_day = NoDay
    /\ pc = [c \in Calls |-> "connect"]
    /\ caller_id = [c \in Calls |-> <<>>]
    /\ unknown = [c \in Calls |-> FALSE]
    /\ harmony_tools = [c \in Calls |-> NoTools]
    /\ agent = [c \in Calls |-> NoAgent]
    /\ session = [c \in Calls |-> "none"]
    /\ room = [c \in Calls |-> "idle"]
    /\ slot = [c \in Calls |-> IdleSlot]
    /\ history = HistoryOff

\* await ctx.connect()
Connect(c) ==
    /\ pc[c] = "connect"
    /\ room' = [room EXCEPT ![c] = "connected"]
    /\ pc' = [pc EXCEPT ![c] = "wait_for_participant"]
    /\ UNCHANGED <<fnVars, history, caller_id, unknown, harmony_tools, agent, session, slot>>

\* participant = await ctx.wait_for_participant(); caller_id = participant.identity
ParticipantJoins(c, id) ==
    /\ pc[c] = "wait_for_participant"
    /\ caller_id' = [caller_id EXCEPT ![c] = id]
    /\ pc' = [pc EXCEPT ![c] = "classify"]
    /\ UNCHANGED <<fnVars, history, unknown, harmony_tools, agent, session, room, slot>>

\* the branch on is_unknown, up to the next await: either the rejection Agent
\* and its session are built, or HarmonyTools, the assistant Agent and its session
Classify(c) ==
    /\ pc[c] = "classify"
    /\ LET u == IsUnknown(caller_id[c])
       IN  /\ unknown' = [unknown EXCEPT ![c] = u]
           /\ IF u
              THEN /\ agent' = [agent EXCEPT ![c] = RejectionAgent]
                   /\ pc' = [pc EXCEPT ![c] = "reject_start"]
                   /\ UNCHANGED harmony_tools
              ELSE /\ harmony_tools' = [harmony_tools EXCEPT ![c] = HarmonyTools(caller_id[c])]
                   /\ agent' = [agent EXCEPT ![c] = AssistantAgent(HarmonyTools(caller_id[c]))]
                   /\ pc' = [pc EXCEPT ![c] = "session_start"]
    /\ UNCHANGED <<fnVars, history, caller_id, session, room, slot>>

\* a rejection branch whose session.start stands outside the try: its error
\* leaves entrypoint, and the finally clause is never entered
RejectSessionStartPropagates(c, ok) ==
    /\ pc[c] = "reject_start"
    /\ session' = [session EXCEPT ![c] = IF ok THEN "started" ELSE "none"]
    /\ pc' = [pc EXCEPT ![c] = IF ok THEN "reject_reply" ELSE "raised"]
    /\ UNCHANGED <<fnVars, history, caller_id, unknown, harmony_tools, agent, room, slot>>

\* await session.start(agent=agent, room=ctx.room) inside the try: it completes,
\* or raises (the caller may be gone already) and the except clause logs the error
RejectSessionStart(c, ok) ==
    /\ pc[c] = "reject_start"
    /\ session' = [session EXCEPT ![c] = IF ok THEN "started" ELSE "none"]
    /\ pc' = [pc EXCEPT ![c] = IF ok THEN "reject_reply" ELSE "reject_finally"]
    /\ UNCHANGED <<fnVars, history, caller_id, unknown, harmony_tools, agent, room, slot>>

\* await session.generate_reply(instructions="") inside the try
RejectGenerateReply(c, ok) ==
    /\ pc[c] = "reject_reply"
    /\ session' = [session EXCEPT ![c] = IF ok THEN "replied" ELSE "started"]
    /\ pc' = [pc EXCEPT ![c] = "reject_finally"]
    /\ UNCHANGED <<fnVars, history, caller_id, unknown, harmony_tools, agent, room, slot>>

\* finally: await ctx.room.disconnect(); return
RejectFinally(c) ==
    /\ pc[c] = "reject_finally"
    /\ room' = [room EXCEPT ![c] = "disconnected"]
    /\ pc' = [pc EXCEPT ![c] = "returned"]
    /\ UNCHANGED <<fnVars, history, caller_id, unknown, harmony_tools, agent, session, slot>>

\* await session.start(agent=agent, room=ctx.room, room_input_options=...):
\* outside any try, so an error leaves entrypoint
SessionStart(c, ok) ==
    /\ pc[c] = "session_start"
    /\ session' = [session EXCEPT ![c] = IF ok THEN "started" ELSE "none"]
    /\ pc' = [pc EXCEPT ![c] = IF ok THEN "generate_reply" ELSE "raised"]
    /\ UNCHANGED <<fnVars, history, caller_id, unknown, harmony_tools, agent, room, slot>>

\* an assistant branch that ends like the rejection branch: after the greeting
\* entrypoint disconnects the room itself
GenerateReplyThenDisconnect(c, ok) ==
    /\ pc[c] = "generate_reply"
    /\ session' = [session EXCEPT ![c] = IF ok THEN "replied" ELSE "started"]
    /\ pc' = [pc EXCEPT ![c] = IF ok THEN "returned" ELSE "raised"]
    /\ room' = [room EXCEPT ![c] = IF ok THEN "disconnected" ELSE room[c]]
    /\ UNCHANGED <<fnVars, history, caller_id, unknown, harmony_tools, agent, slot>>

\* await session.generate_reply(instructions=""), then entrypoint returns and the
\* session goes on until the call ends
GenerateReply(c, ok) ==
    /\ pc[c] = "generate_reply"
    /\ session' = [session EXCEPT ![c] = IF ok THEN "replied" ELSE "started"]
    /\ pc' = [pc EXCEPT ![c] = IF ok THEN "returned" ELSE "raised"]
    /\ UNCHANGED <<fnVars, history, caller_id, unknown, harmony_tools, agent, room, slot>>

\* the call ends externally: the caller hangs up while the conversation runs.
\* (A caller who leaves during set-up shows as the failure of the await in
\* progress, the ok = FALSE case of the actions above.)
Hangup(c) ==
    /\ pc[c] \in {"returned", "raised"}
    /\ room[c] = "connected"
    /\ room' = [room EXCEPT ![c] = "disconnected"]
    /\ UNCHANGED <<fnVars, history, pc, caller_id, unknown, harmony_tools, agent, session, slot>>

-----------------------------------------------------------------------------
(* get_slot, invoked by the conversational layer through the agent's tools *)

\* the conversational layer, once the first reply is under way, calls a tool of
\* the agent: get_slot builds the payload and awaits session.post(...)
GetSlotInvoke(c, tool, kwargs) ==
    /\ session[c] = "replied"
    /\ room[c] = "connected"
    /\ tool \in agent[c].tools
    /\ tool.name = "get_slot"
    /\ slot[c].st \in {"idle", "returned"}
    /\ slot' = [slot EXCEPT ![c] =
                  [st |-> "pending", kwargs |-> kwargs,
                   request |-> PostRequest(tool.self, Parameters(kwargs)),
                   posts |-> 1,
                   outcome |-> NoOutcome, exc |-> "none", result |-> NoValue]]
    /\ UNCHANGED <<fnVars, history, pc, caller_id, unknown, harmony_tools, agent, session, room>>

\* a get_slot that posts once more when the first POST did not bring a 200
CompleteRetrying(c, outcome) ==
    /\ slot[c].st = "pending"
    /\ LET r == GetSlot(outcome)
           failed == outcome.kind # "response" \/ outcome.status # HTTP_OK
       IN  slot' = [slot EXCEPT ![c] =
                      IF failed /\ slot[c].posts = 1
                      THEN [slot[c] EXCEPT !.posts = 2]
                      ELSE [st |-> IF r.exc = "none" THEN "returned" ELSE "raised",
                            kwargs |-> <<>>, request |-> NoRequest,
                            posts |-> slot[c].posts,
                            outcome |-> outcome, exc |-> r.exc, result |-> r.value]]
    /\ history' = Recorded(slot[c].request, outcome, GetSlot(outcome))
    /\ UNCHANGED <<fnVars, pc, caller_id, unknown, harmony_tools, agent, session, room>>

\* a get_slot that keeps a failure mark on its object: once a lookup has failed,
\* later lookups are answered from the mark
CompleteMarkingFailure(c, outcome) ==
    /\ slot[c].st = "pending"
    /\ LET self    == harmony_tools[c]
           tripped == "failed" \in DOMAIN self
           r       == IF tripped THEN Return(MSG_UNAVAILABLE) ELSE GetSlot(outcome)
           failed  == r.value \in {MSG_APOLOGY, MSG_SLOW, MSG_UNAVAILABLE}
       IN  /\ slot' = [slot EXCEPT ![c] =
                         [st |-> IF r.exc = "none" THEN "returned" ELSE "raised",
                          kwargs |-> <<>>, request |-> NoRequest,
                          posts |-> slot[c].posts,
                          outcome |-> outcome, exc |-> r.exc, result |-> r.value]]
           /\ harmony_tools' =
                 IF failed /\ ~tripped
                 THEN [harmony_tools EXCEPT ![c] =
                         [built |-> TRUE, phoneNum |-> self.phoneNum,
                          webhook_url |-> self.webhook_url, failed |-> TRUE]]
                 ELSE harmony_tools
           /\ history' = Recorded(slot[c].request, outcome, r)
    /\ UNCHANGED <<fnVars, pc, caller_id, unknown, agent, session, room>>

\* the awaited POST ends with outcome; get_slot runs to its return (or raises)
Complete(c, outcome) ==
    /\ slot[c].st = "pending"
    /\ LET r == GetSlot(outcome)
       IN  slot' = [slot EXCEPT ![c] =
                      [st |-> IF r.exc = "none" THEN "returned" ELSE "raised",
                       kwargs |-> <<>>, request |-> NoRequest,
                       posts |-> slot[c].posts,
                       outcome |-> outcome, exc |-> r.exc, result |-> r.value]]
    /\ history' = Recorded(slot[c].request, outcome, GetSlot(outcome))
    /\ UNCHANGED <<fnVars, pc, caller_id, unknown, harmony_tools, agent, session, room>>

\* the webhook answers with a status line and a body
GetSlotResponse(c, resp) ==
    /\ resp.kind = "response"
    /\ Complete(c, resp)

\* the total timeout of the request expires before the answer is complete
GetSlotTimeout(c) ==
    /\ slot[c].request.timeout_total = ClientTimeoutTotal
    /\ Complete(c, TimedOut)

\* DNS failure, connection refused, connection reset
GetSlotTransportError(c) ==
    /\ slot[c].request.url = WEBHOOK_URL
    /\ Complete(c, TransportError)

-----------------------------------------------------------------------------
(* Specifications *)

\* one step of call c, whose participant has one of the identities ids
CallStep(c, ids) ==
    \/ Connect(c)
    \/ \E id \in ids : ParticipantJoins(c, id)
    \/ Classify(c)
    \/ \E ok \in BOOLEAN : RejectSessionStart(c, ok)
    \/ \E ok \in BOOLEAN : RejectGenerateReply(c, ok)
    \/ RejectFinally(c)
    \/ \E ok \in BOOLEAN : SessionStart(c, ok)
    \/ \E ok \in BOOLEAN : GenerateReply(c, ok)
    \/ Hangup(c)
    \/ \E tool \in agent[c].tools, kwargs \in ToolCalls : GetSlotInvoke(c, tool, kwargs)
    \/ \E resp \in Responses : GetSlotResponse(c, resp)
    \/ GetSlotTimeout(c)
    \/ GetSlotTransportError(c)

\* NumCalls concurrent calls, in every interleaving
Next == \E c \in Calls : CallStep(c, CallerIds)

Spec == Init /\ [][Next]_vars

\* SpecRepeat: one call whose get_slot invocations are recorded as they end
InitRepeat ==
    /\ fnPhase = "off"
    /\ raw = <<>>
    /\ is_unknown = FALSE
    /\ cleaned = <<>>
    /\ today = 0
    /\ business_day = NoDay
    /\ pc = [c \in Calls |-> "connect"]
    /\ caller_id = [c \in Calls |-> <<>>]
    /\ unknown = [c \in Calls |-> FALSE]
    /\ harmony_tools = [c \in Calls |-> NoTools]
    /\ agent = [c \in Calls |-> NoAgent]
    /\ session = [c \in Calls |-> "none"]
    /\ room = [c \in Calls |-> "idle"]
    /\ slot = [c \in Calls |-> IdleSlot]
    /\ history = HistoryOn

NextRepeat == CallStep(1, CallerIds)

SpecRepeat == InitRepeat /\ [][NextRepeat]_vars

\* SpecFn: no call is in progress; raw ranges over Inputs
FnInit ==
    /\ fnPhase = "input"
    /\ raw \in Inputs
    /\ is_unknown = FALSE
    /\ cleaned = <<>>
    /\ today = 0
    /\ business_day = NoDay
    /\ pc = [c \in Calls |-> "connect"]
    /\ caller_id = [c \in Calls |-> <<>>]
    /\ unknown = [c \in Calls |-> FALSE]
    /\ harmony_tools = [c \in Calls |-> NoTools]
    /\ agent = [c \in Calls |-> NoAgent]
    /\ session = [c \in Calls |-> "none"]
    /\ room = [c \in Calls |-> "idle"]
    /\ slot = [c \in Calls |-> IdleSlot]
    /\ history = HistoryOff

\* is_unknown = (...) of entrypoint, applied to raw
FnClassify ==
    /\ fnPhase = "input"
    /\ is_unknown' = IsUnknown(raw)
    /\ fnPhase' = "classified"
    /\ UNCHANGED <<raw, cleaned, today, business_day, callVars>>

\* cleaned = self._clean_phone_number(raw)
FnClean ==
    /\ fnPhase = "classified"
    /\ cleaned' = CleanPhoneNumber(raw)
    /\ fnPhase' = "cleaned"
    /\ UNCHANGED <<raw, is_unknown, today, business_day, callVars>>

FnNext == FnClassify \/ FnClean

SpecFn == FnInit /\ [][FnNext]_vars

\* SpecCal: no call is in progress; the current date ranges over 0..MaxDay
CalInit ==
    /\ fnPhase = "cal_input"
    /\ raw = <<>>
    /\ is_unknown = FALSE
    /\ cleaned = <<>>
    /\ today \in 0..MaxDay
    /\ business_day = NoDay
    /\ pc = [c \in Calls |-> "connect"]
    /\ caller_id = [c \in Calls |-> <<>>]
    /\ unknown = [c \in Calls |-> FALSE]
    /\ harmony_tools = [c \in Calls |-> NoTools]
    /\ agent = [c \in Calls |-> NoAgent]
    /\ session = [c \in Calls |-> "none"]
    /\ room = [c \in Calls |-> "idle"]
    /\ slot = [c \in Calls |-> IdleSlot]
    /\ history = HistoryOff

\* business_day = nextBusinessDay(clinic timezone), called on the date today
CalNextBusinessDay ==
    /\ fnPhase = "cal_input"
    /\ business_day' = NextBusinessDay(today)
    /\ fnPhase' = "cal_done"
    /\ UNCHANGED <<raw, is_unknown, cleaned, today, callVars>>

SpecCal == CalInit /\ [][CalNextBusinessDay]_vars

\* what the event loop completes for call c without any help from the remote
\* side: the total timeout of a pending request is a timer of the loop, which
\* fires unless the request ended first; the awaits of the rejection branch
\* complete or raise.  (At most one of the four is enabled at a time.)
LoopStep(c) ==
    \/ GetSlotTimeout(c)
    \/ \E ok \in BOOLEAN : RejectSessionStart(c, ok)
    \/ \E ok \in BOOLEAN : RejectGenerateReply(c, ok)
    \/ RejectFinally(c)

\* one call from its start to its end, its participant having any of the
\* identities of Inputs.  The calls share no state, so what a call eventually
\* does is decided by its own steps.
NextCall == CallStep(1, Inputs)

\* the event loop runs every task that is ready
Fairness == WF_vars(LoopStep(1))

LiveSpec == Init /\ [][NextCall]_vars /\ Fairness

-----------------------------------------------------------------------------
(* Claims about get_slot *)

Returned(c) == slot[c].st = "returned"
\* the awaited POST of the call's last invocation ended with a status line
Answered(c) == slot[c].outcome.kind = "response"

\* C1: every invocation of get_slot, whatever the remote call did, ends by
\* returning a text string; none raises past get_slot.
C1_AlwaysReturnsText ==
    \A c \in Calls :
        /\ slot[c].st # "raised"
        /\ Returned(c) => slot[c].result.type = "str"

\* C2: on status 200 with a JSON object, get_slot returns the value of the
\* "result" field unchanged if the field is present, and the fixed string
\* "No availability data received" if it is absent.
C2_ResultVerbatimOrFallback ==
    \A c \in Calls :
        (/\ Answered(c)
         /\ slot[c].outcome.status = 200
         /\ slot[c].outcome.body.valid
         /\ slot[c].outcome.body.json.type = "object")
        => LET obj == slot[c].outcome.body.json.fields
           IN  /\ Returned(c)
               /\ slot[c].result = IF "result" \in DOMAIN obj
                                   THEN obj["result"]
                                   ELSE Str("No availability data received")

C2_Witness ==
    \E c \in Calls :
        /\ Returned(c)
        /\ slot[c].outcome = Response(200, BodyResult)
        /\ slot[c].result = Str("10:00 available")

\* C3: a request is sent under a total timeout of 10; when the timeout expires
\* get_slot returns the slow-system string (never the unavailable string, never
\* the apology string); and every pending invocation eventually returns, also
\* when the backend never answers.
C3_TimeoutReturnsSlow ==
    /\ [](\A c \in Calls :
            /\ slot[c].st = "pending" => slot[c].request.timeout_total = 10
            /\ slot[c].outcome.kind = "timeout" =>
                 /\ Returned(c)
                 /\ slot[c].result
                      = Str("The availability system is temporarily slow to respond.")
                 /\ slot[c].result # MSG_UNAVAILABLE
                 /\ slot[c].result # MSG_APOLOGY)
    /\ \A c \in Calls : (slot[c].st = "pending") ~> Returned(c)

C3_Witness ==
    \E c \in Calls :
        /\ Returned(c)
        /\ slot[c].outcome.kind = "timeout"
        /\ slot[c].result = MSG_SLOW

\* C4: on any status other than 200 get_slot returns the fixed apology string,
\* whatever the body is; the string is fixed, so the status is no part of it.
C4_NonOkReturnsApology ==
    \A c \in Calls :
        (Answered(c) /\ slot[c].outcome.status # 200)
        => /\ Returned(c)
           /\ slot[c].result
                = Str("Sorry, I'm having trouble checking availability right now.")

C4_Witness ==
    \E c \in Calls :
        /\ Returned(c)
        /\ slot[c].outcome = Response(201, BodyResult)
        /\ slot[c].result = MSG_APOLOGY

\* a body that is not valid JSON, or is JSON but not an object
MalformedBody(body) == ~body.valid \/ body.json.type # "object"

\* C5 as stated: on a transport failure other than a timeout, or on a malformed
\* response, get_slot returns the fixed unavailable string, which differs from
\* the timeout string and from the apology string.
C5_MalformedAlwaysUnavailable ==
    \A c \in Calls :
        (\/ slot[c].outcome.kind = "error"
         \/ Answered(c) /\ MalformedBody(slot[c].outcome.body))
        => /\ Returned(c)
           /\ slot[c].result = Str("The availability system is temporarily unavailable.")
           /\ slot[c].result # MSG_SLOW
           /\ slot[c].result # MSG_APOLOGY

\* C5 amended: on a transport failure other than a timeout, or on a response of
\* status 200 whose body is not valid JSON or not a JSON object, get_slot returns
\* the fixed unavailable string, which differs from the timeout string and from
\* the apology string.
C5_UnreadableReturnsUnavailable ==
    \A c \in Calls :
        (\/ slot[c].outcome.kind = "error"
         \/ /\ Answered(c)
            /\ slot[c].outcome.status = 200
            /\ MalformedBody(slot[c].outcome.body))
        => /\ Returned(c)
           /\ slot[c].result = Str("The availability system is temporarily unavailable.")
           /\ slot[c].result # MSG_SLOW
           /\ slot[c].result # MSG_APOLOGY

C5_Witness ==
    \E c \in Calls :
        /\ Returned(c)
        /\ slot[c].outcome = Response(200, BodyList)
        /\ slot[c].result = MSG_UNAVAILABLE

-----------------------------------------------------------------------------
(* Claims about the classifier (SpecFn) *)

Classified == fnPhase \in {"classified", "cleaned"}

\* t occurs somewhere in s
Occurs(t, s) == \E i \in 1..Len(s) : \E j \in i..Len(s) : SubSeq(s, i, j) = t

TenDigits(s) == Len(s) = 10 /\ \A i \in 1..10 : s[i] \in AsciiDigits

\* C6: the classifier answers true exactly for the identifiers that are empty,
\* consist of whitespace only, or whose lower-cased form contains one of the six
\* tokens; so it answers false for every 10-digit number.
C6_ClassifierDecides ==
    Classified =>
        /\ is_unknown <=>
              \/ Len(raw) = 0
              \/ \A i \in 1..Len(raw) : raw[i] \in Whitespace
              \/ \E t \in DenyTokens : Occurs(t, Lower(raw))
        /\ TenDigits(raw) => ~is_unknown

C6_Witness ==
    /\ Classified
    /\ raw = <<"+","1">> \o Upper(S_blocked) \o <<"1">>
    /\ is_unknown

-----------------------------------------------------------------------------
(* Claims about the calls (Spec, LiveSpec) *)

\* C7: a caller classified as unknown gets no HarmonyTools object and no tool,
\* its agent has the rejection script only, no request is ever sent for the call,
\* and the call ends with entrypoint returned and the room disconnected.
C7_UnknownCallerRejected ==
    /\ [](\A c \in Calls :
            unknown[c] =>
                /\ ~harmony_tools[c].built
                /\ agent[c].tools = {}
                /\ agent[c].instructions = REJECTION_SCRIPT
                /\ slot[c] = IdleSlot
                /\ pc[c] \in {"reject_start", "reject_reply", "reject_finally", "returned"})
    /\ \A c \in Calls :
            unknown[c] ~> (pc[c] = "returned" /\ room[c] = "disconnected")

C7_Witness ==
    \E c \in Calls :
        /\ unknown[c]
        /\ caller_id[c] = S_unknown
        /\ session[c] = "replied"
        /\ pc[c] = "returned"
        /\ room[c] = "disconnected"

\* C8: every request in flight carries the canonical number of its own call's
\* caller identifier, however the calls interleave; the get_slot tool of a call
\* is bound to that number for the whole call.
C8_RequestCarriesOwnNumber ==
    \A c \in Calls :
        /\ slot[c].st = "pending" =>
              /\ slot[c].request.json.phoneNumber = CleanPhoneNumber(caller_id[c])
              /\ caller_id[c] = S_14165551234 =>
                    slot[c].request.json.phoneNumber = S_14165551234
        /\ \A tool \in agent[c].tools :
              tool.self.phoneNum = CleanPhoneNumber(caller_id[c])

C8_Witness ==
    \E c, d \in Calls :
        /\ slot[c].st = "pending"
        /\ slot[d].st = "pending"
        /\ slot[c].request.json.phoneNumber = S_14165551234
        /\ slot[d].request.json.phoneNumber # S_14165551234

\* C9: an empty canonical phone number is treated as an unknown caller: no call
\* is Active, and no request is sent, with an empty number.
C9_EmptyNumberIsUnknown ==
    \A c \in Calls :
        /\ (harmony_tools[c].built /\ session[c] # "none")
              => harmony_tools[c].phoneNum # <<>>
        /\ slot[c].st = "pending" => slot[c].request.json.phoneNumber # <<>>

-----------------------------------------------------------------------------
(* Claims about the normaliser (SpecFn) *)

\* the claim's account of the normaliser
RECURSIVE KeepDigitsAndPlus(_)
KeepDigitsAndPlus(s) ==
    IF s = <<>> THEN <<>>
    ELSE (IF IsDigit(Head(s)) \/ Head(s) = "+" THEN <<Head(s)>> ELSE <<>>)
         \o KeepDigitsAndPlus(Tail(s))

WithoutSipPrefix(s) ==
    IF Len(s) >= 4 /\ <<s[1], s[2], s[3], s[4]>> = <<"s","i","p","_">>
    THEN [i \in 1..(Len(s) - 4) |-> s[i + 4]]
    ELSE s

\* C10: _clean_phone_number answers for every input: the test number for
\* "mock_user"; otherwise the input without one leading "sip_", with every
\* character that is neither a digit nor "+" dropped and the order kept.
C10_NormalizeComputes ==
    fnPhase = "cleaned" =>
        /\ cleaned = IF raw = S_mock_user
                     THEN <<"4","1","6","8","3","9","8","0","9","0">>
                     ELSE KeepDigitsAndPlus(WithoutSipPrefix(raw))
        /\ raw = S_sip \o S_12894685551 => cleaned = S_12894685551
        /\ raw = <<>> => cleaned = <<>>

C10_Witness ==
    /\ fnPhase = "cleaned"
    /\ raw = <<"s","i","p","_","+","1","4","1","6","5","5","5","1","2","3","4">>
    /\ cleaned = <<"+","1","4","1","6","5","5","5","1","2","3","4">>

\* C11: for every raw identifier, the output of _clean_phone_number holds no
\* character other than the ten digits 0-9 and "+".
C11_OnlyAsciiDigitsAndPlus ==
    fnPhase = "cleaned" =>
        \A i \in 1..Len(cleaned) : cleaned[i] \in AsciiDigits \cup {"+"}

\* C12: the output of _clean_phone_number is a run of digits with an optional
\* leading "+": a "+" occurs only as its first character.
C12_PlusOnlyLeading ==
    fnPhase = "cleaned" =>
        \A i \in 2..Len(cleaned) : cleaned[i] # "+"

-----------------------------------------------------------------------------
(* Claims about the requests of get_slot (Spec) *)

\* C13: one invocation of get_slot makes at most one POST: a step that puts a
\* request in flight is the start of an invocation and makes exactly one POST;
\* the step that ends the POST, with a 200, a non-200 status, a timeout or a
\* transport failure alike, ends the invocation and sends nothing again.
C13_OnePostPerInvocation ==
    [][\A c \in Calls :
          slot'[c] # slot[c] =>
              IF slot[c].st = "pending"
              THEN /\ slot'[c].st # "pending"
                   /\ slot'[c].request = NoRequest
                   /\ slot'[c].posts = 1
              ELSE /\ slot'[c].st = "pending"
                   /\ slot'[c].request # NoRequest
                   /\ slot'[c].posts = 1]_vars

C13_Witness ==
    \E c, d \in Calls :
        /\ Returned(c) /\ slot[c].outcome = TimedOut
        /\ Returned(d) /\ slot[d].outcome.kind = "response"
        /\ slot[d].outcome.status = 500
        /\ slot[c].posts = 1 /\ slot[d].posts = 1
        /\ slot[c].request = NoRequest /\ slot[d].request = NoRequest

\* C14: the body of every request has the action tag "get_slot" and the
\* appointmentType, bookingDate and bookingTime of the invocation exactly as
\* they were passed, with "false" for a bookingDate or bookingTime that was not
\* passed; whatever the values are, the invocation puts its request in flight.
C14_ArgumentsForwardedVerbatim ==
    \A c \in Calls :
        slot[c].st = "pending" =>
            LET kw   == slot[c].kwargs
                body == slot[c].request.json
            IN  /\ kw \in ToolCalls
                /\ slot[c].posts = 1
                /\ slot[c].request.url = WEBHOOK_URL
                /\ body.action = "get_slot"
                /\ body.appointmentType = kw.appointmentType
                /\ body.bookingDate = IF "bookingDate" \in DOMAIN kw
                                      THEN kw.bookingDate ELSE "false"
                /\ body.bookingTime = IF "bookingTime" \in DOMAIN kw
                                      THEN kw.bookingTime ELSE "false"

C14_Witness ==
    \E c, d \in Calls :
        /\ slot[c].st = "pending"
        /\ slot[c].kwargs = [appointmentType |-> "Hair cut",
                             bookingDate |-> "1999-13-45", bookingTime |-> "25:00"]
        /\ slot[c].request.json.bookingDate = "1999-13-45"
        /\ slot[c].request.json.bookingTime = "25:00"
        /\ slot[d].st = "pending"
        /\ slot[d].kwargs = [appointmentType |-> "Ultrasound", bookingDate |-> "2020-01-01"]
        /\ slot[d].request.json.bookingTime = "false"

-----------------------------------------------------------------------------
(* Claims about repeated invocations of get_slot (SpecRepeat) *)

\* C16: when two invocations of get_slot in a row posted the same request (the
\* same appointmentType, bookingDate, bookingTime and phone number) and their
\* POSTs ended the same way, both returned the same value; the HarmonyTools
\* object is after any number of invocations what __init__ made it.
C16_SameRequestSameAnswer ==
    /\ (/\ history.prev # NoEntry
        /\ history.prev.request = history.last.request
        /\ history.prev.outcome = history.last.outcome)
       => history.prev.ret = history.last.ret
    /\ harmony_tools[1].built =>
          harmony_tools[1] = [built |-> TRUE,
                              phoneNum |-> CleanPhoneNumber(caller_id[1]),
                              webhook_url |-> WEBHOOK_URL]

C16_Witness ==
    /\ history.prev # NoEntry
    /\ history.prev.request = history.last.request
    /\ history.prev.request.json.phoneNumber = S_14165551234
    /\ history.prev.outcome = TimedOut
    /\ history.last.outcome = TimedOut
    /\ history.last.ret = Return(MSG_SLOW)
    /\ Returned(1)

-----------------------------------------------------------------------------
(* Claims about the calendar (SpecCal) *)

\* C17: nextBusinessDay returns the first date after the current date whose
\* weekday is Monday to Friday: never the current date, never a Saturday or a
\* Sunday, no weekday skipped; on a Friday or a Saturday the Monday that
\* follows, on a Tuesday the Wednesday.
C17_FirstWeekdayAfterToday ==
    fnPhase = "cal_done" =>
        /\ business_day > today
        /\ business_day % 7 \in 0..4
        /\ \A d \in (today + 1)..(business_day - 1) : d % 7 \in {5, 6}
        /\ today % 7 = 4 => business_day = today + 3 /\ business_day % 7 = 0
        /\ today % 7 = 5 => business_day = today + 2 /\ business_day % 7 = 0
        /\ today % 7 = 1 => business_day = today + 1 /\ business_day % 7 = 2

C17_Witness ==
    /\ fnPhase = "cal_done"
    /\ today = 11
    /\ business_day = 14

-----------------------------------------------------------------------------
(* Claims about the path of a call (Spec, LiveSpec) *)

\* the state of the call, read off the position of entrypoint and the room
Stage(c) ==
    CASE pc[c] \in {"connect", "wait_for_participant"} -> "AwaitingCaller"
      [] pc[c] = "classify" -> "Classifying"
      [] pc[c] \in {"reject_start", "reject_reply", "reject_finally"} -> "Rejecting"
      [] OTHER -> IF room[c] = "disconnected" THEN "Ended" ELSE "Active"

Path ==
    { <<"AwaitingCaller", "Classifying">>,
      <<"Classifying", "Rejecting">>, <<"Classifying", "Active">>,
      <<"Rejecting", "Ended">>, <<"Active", "Ended">> }

\* C18: every step of a call stays in its state or follows the path
\* AwaitingCaller -> Classifying -> (Rejecting or Active) -> Ended; the
\* classifier's answer is set by the one step that leaves Classifying and never
\* again; that step enters Rejecting exactly if the answer is unknown; and the
\* step that ends an Active call is no step of entrypoint.
C18_CallFollowsPath ==
    [][\A c \in Calls :
          LET s == Stage(c)
              t == Stage(c)'
          IN  /\ s # t => <<s, t>> \in Path
              /\ s # "Classifying" => unknown'[c] = unknown[c]
              /\ (s = "Classifying" /\ t # s) =>
                    /\ caller_id'[c] = caller_id[c]
                    /\ (t = "Rejecting") = unknown'[c]
                    /\ (t = "Active") = ~unknown'[c]
              /\ (s = "Active" /\ t = "Ended") =>
                    /\ pc'[c] = pc[c]
                    /\ ~unknown[c]]_vars

C18_Witness ==
    \E c, d \in Calls :
        /\ unknown[c] /\ Stage(c) = "Ended" /\ ~harmony_tools[c].built
        /\ ~unknown[d] /\ Stage(d) = "Ended" /\ harmony_tools[d].built
        /\ pc[d] = "returned"

\* C19: in the rejection branch an error of session.start or of generate_reply
\* never leaves entrypoint and never leads into the assistant branch: no
\* HarmonyTools object, no assistant agent; and after such an error entrypoint
\* still disconnects the room and returns.
C19_RejectionFailureStillEnds ==
    /\ [](unknown[1] =>
            /\ pc[1] \in {"reject_start", "reject_reply", "reject_finally", "returned"}
            /\ ~harmony_tools[1].built
            /\ agent[1].instructions # ASSISTANT_SCRIPT
            /\ pc[1] = "returned" => room[1] = "disconnected")
    /\ (pc[1] = "reject_finally" /\ session[1] # "replied")
          ~> (pc[1] = "returned" /\ room[1] = "disconnected" /\ session[1] # "replied")

C19_Witness ==
    /\ unknown[1]
    /\ caller_id[1] = S_anonymous
    /\ session[1] = "none"
    /\ pc[1] = "returned"
    /\ room[1] = "disconnected"

=============================================================================
